---------------------------- MODULE Spec2Model ----------------------------
(***************************************************************************)
(* Document Retrieval & Streaming Answer Engine of the 1421 Foundation     *)
(* research system.                                                        *)
(*                                                                         *)
(*   Part I   the chat stream: streamChat (lib/api.ts) and the Chat page's *)
(*            handleSend (pages/Chat.tsx), over a character-level body.    *)
(*   Part II  retrieval: UnifiedResearchSystem.semantic_search,            *)
(*            get_document_details, search_documents_sql and the           *)
(*            documents page's semantic-then-lexical search (README.md).   *)
(*   Part III the Reindex Pipeline and its trigger (pages/Settings.tsx).   *)
(*   Part IV  the Documents page (pages/Documents.tsx) and its requests.   *)
(*                                                                         *)
(* Texts are sequences of one-character strings.                           *)
(***************************************************************************)
EXTENDS Integers, Sequences, FiniteSets, TLC

VARIABLES
    \* ---- Part I: Chat page state and the exchanges started by handleSend
    messages,    \* useState<Message[]>: what the page shows
    isTyping,    \* useState(false)
    nSends,      \* number of accepted handleSend calls
    ex,          \* per accepted handleSend: closure, stream and callback log
    \* ---- Part II: document store, live vector index, last retrieval
    conn,        \* self.conn is not None
    indexLoaded, \* self.index is not None
    index,       \* self.index: per row, the document whose text it embeds
    metadatas,   \* self.metadatas: per row, the document id
    store,       \* ids of the rows of the documents table
    deleted,     \* ids removed from the documents table by hand
    ret,         \* the last retrieval: inputs, path and results
    \* ---- Part III: reindex pipeline and the Settings page that triggers it
    pstate,      \* Idle | Scanning | Embedding | Swapping | Failed
    build,       \* the index under construction: [index, metadatas]
    todo,        \* documents scanned and not yet embedded
    runs,        \* runs started
    finished,    \* runs that came back to Idle
    preRun,      \* the live index when the current run started
    sawSwap,     \* the current run has entered Swapping
    outcome,     \* how the last run ended, and the partial build a failure left
    rd,          \* a retrieval's reads of the live index
    reindexing,  \* Settings page: useState(false)
    showSuccess, \* Settings page: useState(false)
    req,         \* POST documents/reindex: none | sent | accepted | busy
    lastTrig,    \* the last trigger the server handled
    \* ---- Part IV: the Documents page and the requests it has in flight
    documents,      \* useState<Document[]>([])
    loading,        \* useState(true)
    searchQuery,    \* useState("")
    searching,      \* useState(false)
    isSearchMode,   \* useState(false)
    selectedType,   \* useState<string>("all")
    selectedYear,   \* useState<number | "all">("all")
    totalDocuments, \* useState(0)
    currentPage,    \* useState(1)
    error,          \* useState<string | null>(null): whether it is set
    pending,        \* requests sent and not yet answered
    nReq            \* requests sent so far

chatVars == <<messages, isTyping, nSends, ex>>
retrVars == <<conn, indexLoaded, index, metadatas, store, deleted, ret>>
pipeVars == <<pstate, build, todo, runs, finished, preRun, sawSwap, outcome, rd,
              reindexing, showSuccess, req, lastTrig>>
docVars == <<documents, loading, searchQuery, searching, isSearchMode,
             selectedType, selectedYear, totalDocuments, currentPage, error,
             pending, nReq>>
vars == <<messages, isTyping, nSends, ex,
          conn, indexLoaded, index, metadatas, store, deleted, ret,
          pstate, build, todo, runs, finished, preRun, sawSwap, outcome, rd,
          reindexing, showSuccess, req, lastTrig,
          documents, loading, searchQuery, searching, isSearchMode,
          selectedType, selectedYear, totalDocuments, currentPage, error,
          pending, nReq>>

-----------------------------------------------------------------------------
(* Bounds of the model                                                     *)

\* delta frames the server generates per stream
MaxDeltas == 2

-----------------------------------------------------------------------------
(* Text helpers (JavaScript String semantics)                              *)

NL == "\n"
BS == "\\"

\* String.prototype.trim strips these from both ends
IsWs(c) == c \in {" ", NL, "\t"}

RECURSIVE TrimLeft(_)
TrimLeft(s) ==
    IF s # <<>> /\ IsWs(Head(s)) THEN TrimLeft(Tail(s)) ELSE s

RECURSIVE TrimRight(_)
TrimRight(s) ==
    IF s # <<>> /\ IsWs(s[Len(s)]) THEN TrimRight(SubSeq(s, 1, Len(s) - 1)) ELSE s

Trim(s) == TrimRight(TrimLeft(s))

StartsWith(s, p) == Len(s) >= Len(p) /\ SubSeq(s, 1, Len(p)) = p

\* s.slice(n) with a 0-based n
SliceFrom(s, n) == SubSeq(s, n + 1, Len(s))

IsPrefix(p, s) == Len(p) <= Len(s) /\ SubSeq(s, 1, Len(p)) = p

\* buffer.indexOf("\n\n"), 1-based; 0 stands for JavaScript's -1
IndexOfBlankLine(s) ==
    LET hits == {i \in 1..(Len(s) - 1) : s[i] = NL /\ s[i + 1] = NL}
    IN  IF hits = {} THEN 0 ELSE CHOOSE i \in hits : \A j \in hits : i <= j

\* data.replace(/\\n/g, "\n"): every backslash-n pair becomes a newline
RECURSIVE RestoreNewlines(_)
RestoreNewlines(s) ==
    IF s = <<>> THEN <<>>
    ELSE IF Len(s) >= 2 /\ s[1] = BS /\ s[2] = "n"
         THEN <<NL>> \o RestoreNewlines(SliceFrom(s, 2))
         ELSE <<Head(s)>> \o RestoreNewlines(Tail(s))

DataPrefix == <<"d", "a", "t", "a", ":", " ">>
DoneText == <<"[", "D", "O", "N", "E", "]">>
ErrorPrefix == <<"E", "R", "R", "O", "R", ":">>


-----------------------------------------------------------------------------
(* Part I.a  The chat/stream body as the server produces it                *)

\* texts the language model generates as deltas
Payloads == { <<"a">>, <<"b", NL>> }
\* message of a language-model failure, of a failed read, of a non-OK reply
LmErrorText == <<"l", "m">>
ReadErrorText == <<"n", "e", "t">>
HttpErrorText == <<"5", "0", "0">>
\* the user's question, after trim()
UserText == <<"q">>
\* the sources a separate POST /api/chat may report
SourceLists == { <<>>, <<1>> }

\* the server escapes newlines of a delta as backslash-n
RECURSIVE EscapeNewlines(_)
EscapeNewlines(s) ==
    IF s = <<>> THEN <<>>
    ELSE IF Head(s) = NL THEN <<BS, "n">> \o EscapeNewlines(Tail(s))
         ELSE <<Head(s)>> \o EscapeNewlines(Tail(s))

\* one frame: the data marker, the payload, an empty line
Frame(data) == DataPrefix \o data \o <<NL, NL>>

DeltaFrame(p) == Frame(EscapeNewlines(p))
DoneFrame == Frame(DoneText)
ErrorFrame(msg) == Frame(ErrorPrefix \o <<" ">> \o msg)

-----------------------------------------------------------------------------
(* Part I.b  streamChat's frame loop                                       *)

Call(cb, text) == [cb |-> cb, text |-> text]

\* data.slice(7) of an ERROR: frame
ErrorDetail(data) == SliceFrom(data, 7)

\* The inner while loop of streamChat on the current buffer: the callbacks
\* it makes, in order, the buffer it leaves, and whether it returned.
RECURSIVE Drain(_)
Drain(buf) ==
    LET idx == IndexOfBlankLine(buf)
    IN  IF idx = 0
        THEN [buffer |-> buf, calls |-> <<>>, returned |-> FALSE]
        ELSE LET line == Trim(SubSeq(buf, 1, idx - 1))
                 rest == SubSeq(buf, idx + 2, Len(buf))
                 data == SliceFrom(line, 6)
             IN  IF ~StartsWith(line, DataPrefix) THEN Drain(rest)
                 ELSE IF data = DoneText
                 THEN [buffer |-> rest, calls |-> <<Call("done", <<>>)>>,
                       returned |-> TRUE]
                 ELSE IF StartsWith(data, ErrorPrefix)
                 THEN [buffer |-> rest,
                       calls |-> <<Call("error", ErrorDetail(data))>>,
                       returned |-> TRUE]
                 ELSE LET r == Drain(rest)
                      IN  [r EXCEPT !.calls =
                              <<Call("delta", RestoreNewlines(data))>> \o @]

\* a slip: the chunk is put in front of the buffered text
AppendChunkInFront(buffer, chunk) == chunk \o buffer

\* a slip: every chunk is handled on its own, the buffered text is forgotten
AppendChunkForgetting(buffer, chunk) == chunk

\* buffer += decoder.decode(value, { stream: true })
AppendChunk(buffer, chunk) == buffer \o chunk

-----------------------------------------------------------------------------
(* Part I.c  Chat.handleSend and its three callbacks                       *)

UserMsg(text) ==
    [role |-> "user", content |-> text, streaming |-> "unset",
     hasSources |-> FALSE, sources |-> <<>>]

AssistantMsg(content, streaming) ==
    [role |-> "assistant", content |-> content, streaming |-> streaming,
     hasSources |-> FALSE, sources |-> <<>>]

ErrorLabel == <<"E", "r", "r", "o", "r", ":", " ">>

\* `Error: ${err}`
ErrorContent(content, err) == ErrorLabel \o err

Unused ==
    [phase |-> "unused", newMsgs |-> <<>>, content |-> <<>>, wire |-> <<>>,
     srv |-> "open", sentinel |-> "none", buffer |-> <<>>,
     generated |-> <<>>, log |-> <<>>, src |-> "none", left |-> FALSE,
     grounding |-> <<>>, split |-> FALSE]

\* A callback's effect on [x: the exchange, msgs, typing].
OnDelta(st, chunk) ==
    LET content == st.x.content \o chunk
    IN  [st EXCEPT !.x.content = content,
                   !.x.log = Append(@, Call("delta", chunk)),
                   !.msgs = Append(st.x.newMsgs, AssistantMsg(content, "true"))]

OnDone(st) ==
    [st EXCEPT !.typing = FALSE,
               !.x.src = "pending",
               !.x.log = Append(@, Call("done", <<>>))]

OnError(st, err) ==
    [st EXCEPT !.typing = FALSE,
               !.x.log = Append(@, Call("error", err)),
               !.msgs = Append(st.x.newMsgs,
                               AssistantMsg(ErrorContent(st.x.content, err), "false"))]

RECURSIVE ApplyCalls(_, _)
ApplyCalls(st, calls) ==
    IF calls = <<>> THEN st
    ELSE LET c == Head(calls)
             next == CASE c.cb = "delta" -> OnDelta(st, c.text)
                       [] c.cb = "done" -> OnDone(st)
                       [] OTHER -> OnError(st, c.text)
         IN  ApplyCalls(next, Tail(calls))

Current(e) == [x |-> ex[e], msgs |-> messages, typing |-> isTyping]

\* commit a callback run of exchange e; the setters of a page that has been
\* unmounted change nothing
Commit(e, st, phase) ==
    /\ ex' = [ex EXCEPT ![e] = [st.x EXCEPT !.phase = phase]]
    /\ messages' = IF st.x.left THEN messages ELSE st.msgs
    /\ isTyping' = IF st.x.left THEN isTyping ELSE st.typing

\* a guard that forgets isTyping
HandleSendGuardAnyTime(text) == text # <<>>

\* handleSend(text): the guard, the placeholder, the fetch
HandleSendGuard(text) == text # <<>> /\ ~isTyping

HandleSend ==
    /\ nSends + 1 \in DOMAIN ex
    /\ \A e \in DOMAIN ex : ~ex[e].left
    /\ HandleSendGuard(UserText)
    /\ LET newMsgs == Append(messages, UserMsg(UserText))
       IN  /\ messages' = Append(newMsgs, AssistantMsg(<<>>, "true"))
           /\ ex' = [ex EXCEPT ![nSends + 1] =
                        [Unused EXCEPT !.phase = "fetching", !.newMsgs = newMsgs]]
    /\ isTyping' = TRUE
    /\ nSends' = nSends + 1
    /\ UNCHANGED <<retrVars, pipeVars, docVars>>

\* await fetch(...) resolves with res.ok; grounding is what the server's
\* retrieval for this stream found
FetchOk(e, grounding) ==
    /\ ex[e].phase = "fetching"
    /\ ex' = [ex EXCEPT ![e].phase = "streaming", ![e].grounding = grounding]
    /\ UNCHANGED <<messages, isTyping, nSends, retrVars, pipeVars, docVars>>

\* await fetch(...) resolves with !res.ok: onError(detail); return
FetchNotOk(e) ==
    /\ ex[e].phase = "fetching"
    /\ Commit(e, OnError(Current(e), HttpErrorText), "returned")
    /\ UNCHANGED <<nSends, retrVars, pipeVars, docVars>>

\* await fetch(...) rejects: it is outside the try, streamChat rejects
FetchRejects(e) ==
    /\ ex[e].phase = "fetching"
    /\ ex' = [ex EXCEPT ![e].phase = "rejected"]
    /\ UNCHANGED <<messages, isTyping, nSends, retrVars, pipeVars, docVars>>

\* reader.read() resolves with the next n bytes; the frame loop runs
ReadChunk(e, n) ==
    /\ ex[e].phase = "streaming"
    /\ n \in 1..Len(ex[e].wire)
    /\ LET x == ex[e]
           d == Drain(AppendChunk(x.buffer, SubSeq(x.wire, 1, n)))
           st0 == [Current(e) EXCEPT !.x.buffer = d.buffer,
                                     !.x.wire = SliceFrom(x.wire, n),
                                     !.x.split = @ \/ d.buffer # <<>>]
       IN  Commit(e, ApplyCalls(st0, d.calls),
                  IF d.returned THEN "returned" ELSE "streaming")
    /\ UNCHANGED <<nSends, retrVars, pipeVars, docVars>>

\* reader.read() resolves with done: break, then onDone()
ReadDone(e) ==
    /\ ex[e].phase = "streaming"
    /\ ex[e].wire = <<>>
    /\ ex[e].srv = "ended"
    /\ Commit(e, OnDone(Current(e)), "returned")
    /\ UNCHANGED <<nSends, retrVars, pipeVars, docVars>>

\* reader.read() rejects: catch, onError(error.message)
ReadRejects(e) ==
    /\ ex[e].phase = "streaming"
    /\ ex[e].srv = "broken"
    /\ Commit(e, OnError(Current(e), ReadErrorText), "returned")
    /\ UNCHANGED <<nSends, retrVars, pipeVars, docVars>>

\* onDone's sendChatMessage resolves: the message list is rebuilt with sources
SourcesArrive(e, list) ==
    /\ ex[e].src = "pending"
    /\ messages' = IF ex[e].left THEN messages
                    ELSE Append(ex[e].newMsgs,
                                [AssistantMsg(ex[e].content, "false")
                                    EXCEPT !.hasSources = TRUE, !.sources = list])
    /\ ex' = [ex EXCEPT ![e].src = "done",
                        ![e].log = Append(@, Call("sources", <<>>))]
    /\ UNCHANGED <<isTyping, nSends, retrVars, pipeVars, docVars>>

\* onDone's sendChatMessage rejects: the catch keeps the text, without sources
SourcesFail(e) ==
    /\ ex[e].src = "pending"
    /\ messages' = IF ex[e].left THEN messages
                    ELSE Append(ex[e].newMsgs, AssistantMsg(ex[e].content, "false"))
    /\ ex' = [ex EXCEPT ![e].src = "failed"]
    /\ UNCHANGED <<isTyping, nSends, retrVars, pipeVars, docVars>>

\* the user leaves the Chat page mid-stream (another route is shown): the
\* component unmounts; it registers no cleanup and the fetch has no signal,
\* so the stream and its callbacks go on
CallerLeaves(e) ==
    /\ ex[e].phase = "streaming"
    /\ ~ex[e].left
    /\ ex' = [ex EXCEPT ![e].left = TRUE]
    /\ UNCHANGED <<messages, isTyping, nSends, retrVars, pipeVars, docVars>>

\* handleClear
HandleClear ==
    /\ \A e \in DOMAIN ex : ~ex[e].left
    /\ messages # <<>>
    /\ messages' = <<>>
    /\ UNCHANGED <<isTyping, nSends, ex, retrVars, pipeVars, docVars>>

-----------------------------------------------------------------------------
(* Part I.d  The server side of POST chat/stream and the connection        *)

ServerOpen(e) == ex[e].phase = "streaming" /\ ex[e].srv = "open"

\* the language model yields a chunk: one delta frame
ServerDelta(e, p) ==
    /\ ServerOpen(e)
    /\ Len(ex[e].generated) < MaxDeltas
    /\ ex' = [ex EXCEPT ![e].generated = Append(@, p),
                        ![e].wire = @ \o DeltaFrame(p)]
    /\ UNCHANGED <<messages, isTyping, nSends, retrVars, pipeVars, docVars>>

\* generation completes: the terminal sentinel, then the body ends
ServerDone(e) ==
    /\ ServerOpen(e)
    /\ ex' = [ex EXCEPT ![e].wire = @ \o DoneFrame, ![e].srv = "ended",
                        ![e].sentinel = "done"]
    /\ UNCHANGED <<messages, isTyping, nSends, retrVars, pipeVars, docVars>>

\* the language model fails: the error sentinel, then the body ends
ServerError(e) ==
    /\ ServerOpen(e)
    /\ ex' = [ex EXCEPT ![e].wire = @ \o ErrorFrame(LmErrorText),
                        ![e].srv = "ended", ![e].sentinel = "error"]
    /\ UNCHANGED <<messages, isTyping, nSends, retrVars, pipeVars, docVars>>

\* the body ends with no sentinel (the server or a proxy closes the response)
BodyEnds(e) ==
    /\ ServerOpen(e)
    /\ ex' = [ex EXCEPT ![e].srv = "ended"]
    /\ UNCHANGED <<messages, isTyping, nSends, retrVars, pipeVars, docVars>>

\* the connection breaks: the next read rejects
ConnectionBreaks(e) ==
    /\ ServerOpen(e)
    /\ ex' = [ex EXCEPT ![e].srv = "broken"]
    /\ UNCHANGED <<messages, isTyping, nSends, retrVars, pipeVars, docVars>>

Exchanges == DOMAIN ex

NextStream ==
    \/ HandleSend
    \/ HandleClear
    \/ \E e \in Exchanges : \E g \in SourceLists : FetchOk(e, g)
    \/ \E e \in Exchanges : FetchNotOk(e)
    \/ \E e \in Exchanges : FetchRejects(e)
    \/ \E e \in Exchanges : \E n \in 1..Len(ex[e].wire) : ReadChunk(e, n)
    \/ \E e \in Exchanges : ReadDone(e)
    \/ \E e \in Exchanges : ReadRejects(e)
    \/ \E e \in Exchanges : \E l \in SourceLists : SourcesArrive(e, l)
    \/ \E e \in Exchanges : SourcesFail(e)
    \/ \E e \in Exchanges : \E p \in Payloads : ServerDelta(e, p)
    \/ \E e \in Exchanges : ServerDone(e)
    \/ \E e \in Exchanges : ServerError(e)
    \/ \E e \in Exchanges : BodyEnds(e)
    \/ \E e \in Exchanges : ConnectionBreaks(e)
    \/ \E e \in Exchanges : CallerLeaves(e)

\* the one-character deltas
ShortPayloads == {p \in Payloads : Len(p) = 1}

\* A conversation of two questions: the same steps, with every read taking
\* all the bytes that have arrived and the answers made of short deltas.
NextConversation ==
    \/ HandleSend
    \/ HandleClear
    \/ \E e \in Exchanges : \E g \in SourceLists : FetchOk(e, g)
    \/ \E e \in Exchanges : FetchNotOk(e)
    \/ \E e \in Exchanges : FetchRejects(e)
    \/ \E e \in Exchanges : ReadChunk(e, Len(ex[e].wire))
    \/ \E e \in Exchanges : ReadDone(e)
    \/ \E e \in Exchanges : ReadRejects(e)
    \/ \E e \in Exchanges : \E l \in SourceLists : SourcesArrive(e, l)
    \/ \E e \in Exchanges : SourcesFail(e)
    \/ \E e \in Exchanges : \E p \in ShortPayloads : ServerDelta(e, p)
    \/ \E e \in Exchanges : ServerDone(e)
    \/ \E e \in Exchanges : ServerError(e)
    \/ \E e \in Exchanges : BodyEnds(e)
    \/ \E e \in Exchanges : ConnectionBreaks(e)
    \/ \E e \in Exchanges : CallerLeaves(e)

\* delta texts that look like protocol text or end in white space
DeltaTexts ==
    ShortPayloads \cup {<<"a", " ">>, <<" ">>, <<BS, "n">>, DoneText,
                        ErrorPrefix \o <<"x">>}

\* the frames of the deltas, in generation order
RECURSIVE BodyOf(_)
BodyOf(gen) ==
    IF gen = <<>> THEN <<>> ELSE DeltaFrame(Head(gen)) \o BodyOf(Tail(gen))

\* what ends the body
Terminal(sentinel) ==
    CASE sentinel = "done" -> DoneFrame
      [] sentinel = "error" -> ErrorFrame(LmErrorText)
      [] OTHER -> <<>>

\* the exchange once the server has written the whole body for gen
Streamed(gen, sentinel) ==
    [Unused EXCEPT !.phase = "streaming", !.newMsgs = <<UserMsg(UserText)>>,
                   !.generated = gen, !.sentinel = sentinel, !.srv = "ended",
                   !.wire = BodyOf(gen) \o Terminal(sentinel)]

\* streamChat reading a body that has been written in full, in any chunking
NextDecode ==
    \/ \E e \in Exchanges : \E n \in 1..Len(ex[e].wire) : ReadChunk(e, n)
    \/ \E e \in Exchanges : ReadDone(e)

-----------------------------------------------------------------------------
(* Part II  Retrieval (UnifiedResearchSystem, README.md)                   *)

\* documents of the corpus
NumDocs == 2
\* rows of the vector index
MaxRows == 2
\* distances the index reports are 0..MaxDist
MaxDist == 1
\* k (and the documents page's limit) is 1..MaxK
MaxK == 2

DocIds == 1..NumDocs

\* faiss fills the slots it has no neighbour for with row -1 and the largest
\* float as distance
NoNeighbour == 0 - 1
HugeDistance == MaxDist + 1

\* float(1.0 / (1.0 + distance)), kept as a fraction
Similarity(distance) == [num |-> 1, den |-> 1 + distance]

SimGeq(a, b) == a.num * b.den >= b.num * a.den
SimEq(a, b) == a.num * b.den = b.num * a.den

Min(a, b) == IF a <= b THEN a ELSE b

\* self.index.search(query_embedding, k): every output the library may give
\* for an index of n rows whose distances to the query are dist[1..n]: the
\* min(k, n) nearest rows by ascending distance (equal distances in any
\* order), then the padding. Rows are 0-based, as in the code.
IndexSearch(n, dist, k) ==
    LET m == Min(k, n)
        orders == {h \in [1..m -> 1..n] :
                      /\ \A i, j \in 1..m : i < j =>
                            h[i] # h[j] /\ dist[h[i]] <= dist[h[j]]
                      /\ \A r \in 1..n :
                            (\A i \in 1..m : h[i] # r) =>
                                \A i \in 1..m : dist[h[i]] <= dist[r]}
    IN  {[i \in 1..k |->
            IF i <= m THEN [idx |-> h[i] - 1, distance |-> dist[h[i]]]
            ELSE [idx |-> NoNeighbour, distance |-> HugeDistance]] : h \in orders}

\* a lookup that takes a stale row's document for present
GetDocumentDetailsUnchecked(doc_id) == conn

\* get_document_details(doc_id): whether the documents table has the row
GetDocumentDetails(doc_id) == conn /\ doc_id \in store

\* self.metadatas[idx] is an IndexError outside -len..len-1
MetadataRaises(idx) == idx < 0 - Len(metadatas)

\* self.metadatas[idx]['id']; a negative idx counts from the end
MetadataId(idx) ==
    IF idx >= 0 THEN metadatas[idx + 1] ELSE metadatas[Len(metadatas) + idx + 1]

SemanticHit(doc_id, distance) ==
    [document_id |-> doc_id, scored |-> TRUE,
     similarity |-> Similarity(distance), distance |-> distance]

\* the for loop of semantic_search over indices[0]
RECURSIVE SemanticLoop(_, _)
SemanticLoop(hits, acc) ==
    IF hits = <<>> THEN acc
    ELSE LET idx == Head(hits).idx
         IN  IF idx < Len(metadatas)
             THEN IF MetadataRaises(idx)
                  THEN [results |-> <<>>, raised |-> TRUE]
                  ELSE LET doc_id == MetadataId(idx)
                       IN  IF GetDocumentDetails(doc_id)
                           THEN SemanticLoop(Tail(hits),
                                    [acc EXCEPT !.results =
                                        Append(@, SemanticHit(doc_id,
                                                      Head(hits).distance))])
                           ELSE SemanticLoop(Tail(hits), acc)
             ELSE SemanticLoop(Tail(hits), acc)

\* semantic_search(query, k): encodeOk is whether model.encode returned,
\* hits is what index.search gave
SemanticSearch(encodeOk, hits) ==
    IF ~indexLoaded THEN [results |-> <<>>, raised |-> FALSE]
    ELSE IF ~encodeOk THEN [results |-> <<>>, raised |-> TRUE]
    ELSE SemanticLoop(hits, [results |-> <<>>, raised |-> FALSE])

\* the ids of a set in ascending order (ORDER BY id)
RECURSIVE OrderById(_)
OrderById(S) ==
    IF S = {} THEN <<>>
    ELSE LET least == CHOOSE x \in S : \A y \in S : x <= y
         IN  <<least>> \o OrderById(S \ {least})

LexicalHit(doc_id) ==
    [document_id |-> doc_id, scored |-> FALSE,
     similarity |-> [num |-> 0, den |-> 1], distance |-> 0]

\* a query that forgets its LIMIT
SearchDocumentsSqlUnlimited(matching, limit) ==
    IF ~conn THEN <<>>
    ELSE LET rows == OrderById(store \cap matching)
         IN  [i \in 1..Len(rows) |-> LexicalHit(rows[i])]

\* search_documents_sql(search_term, limit): matching is the set of ids
\* whose title, content or author contain the term
SearchDocumentsSql(matching, limit) ==
    IF ~conn THEN <<>>
    ELSE LET rows == OrderById(store \cap matching)
         IN  [i \in 1..Min(limit, Len(rows)) |-> LexicalHit(rows[i])]

\* get_all_documents(limit) with no source_type filter
GetAllDocuments(limit) ==
    IF ~conn THEN <<>>
    ELSE LET rows == OrderById(store)
         IN  [i \in 1..Min(limit, Len(rows)) |-> LexicalHit(rows[i])]

\* the list a query that selects no row returns
EmptyResult == <<>>

\* a fallback that also fires when the semantic path found a single document
FallsBackWhenFew(found) == Len(found) <= 1

\* `if not documents:` after the semantic search
FallsBack(found) == found = <<>>

\* show_documents_page's search: semantic first, SQL when that is empty.
\* The set of documents the term matches is read by the SQL query alone.
\* A retrieval changes nothing it reads; one per behaviour is explored.
SearchDocuments(k, encodeOk, hits) ==
    /\ ret.path = "none"
    /\ LET sem == SemanticSearch(encodeOk, hits)
           answer == [path |-> "semantic", k |-> k, results |-> sem.results,
                      raised |-> sem.raised, gone |-> deleted,
                      encodeOk |-> encodeOk, hits |-> hits, lexical |-> 0,
                      sem |-> sem.results, sqlCalled |-> FALSE]
       IN  IF ~FallsBack(sem.results)
           THEN ret' = answer
           ELSE \E matching \in SUBSET DocIds :
                    ret' = [answer EXCEPT
                               !.path = "lexical",
                               !.results = SearchDocumentsSql(matching, k),
                               !.lexical = Cardinality(store \cap matching),
                               !.sqlCalled = TRUE]
    /\ UNCHANGED <<conn, indexLoaded, index, metadatas, store, deleted>>
    /\ UNCHANGED <<chatVars, pipeVars, docVars>>

\* a row of the documents table is deleted by hand; the index keeps its rows
DeleteDocument(doc_id) ==
    /\ conn
    /\ doc_id \in store
    /\ store' = store \ {doc_id}
    /\ deleted' = deleted \cup {doc_id}
    /\ UNCHANGED <<conn, indexLoaded, index, metadatas, ret>>
    /\ UNCHANGED <<chatVars, pipeVars, docVars>>

Distances == [1..Len(index) -> 0..MaxDist]

\* a search from the documents page: model.encode raises, or it returns
\* and the index is searched
Search ==
    /\ ret.path = "none"
    /\ \/ \E k \in 1..MaxK : SearchDocuments(k, FALSE, <<>>)
       \/ \E k \in 1..MaxK, dist \in Distances :
             \E hits \in IndexSearch(Len(index), dist, k) :
                 SearchDocuments(k, TRUE, hits)

NextRetrieve ==
    \/ \E d \in DocIds : DeleteDocument(d)
    \/ Search

\* sequences over S of length at most n
SeqUpTo(S, n) == UNION {[1..m -> S] : m \in 0..n}

-----------------------------------------------------------------------------
(* Part III  The Reindex Pipeline, its trigger and concurrent retrievals   *)

\* POST documents/reindex requests the Settings page sends per behaviour
MaxTriggers == 3

EmptyIndex == [index |-> <<>>, metadatas |-> <<>>]

\* the live Vector Index: the index blob and its metadata table
Live == [index |-> index, metadatas |-> metadatas]

Active == {"Scanning", "Embedding", "Swapping"}

NoRead ==
    [phase |-> "idle", index |-> <<>>, metadatas |-> <<>>, partial |-> <<>>,
     during |-> "Idle", during2 |-> "Idle", run |-> 0]

\* a trigger that starts a run whatever the pipeline is doing
TriggerReindexNoBusy ==
    /\ req = "sent"
    /\ req' = "accepted"
    /\ lastTrig' = [n |-> lastTrig.n + 1, seen |-> pstate, answer |-> "accepted"]
    /\ pstate' = "Scanning"
    /\ runs' = runs + 1
    /\ preRun' = Live
    /\ build' = EmptyIndex
    /\ todo' = <<>>
    /\ sawSwap' = FALSE
    /\ UNCHANGED <<finished, outcome, rd, reindexing, showSuccess>>
    /\ UNCHANGED <<chatVars, retrVars, docVars>>

\* a trigger that answers only once the run it started is over
TriggerReindexBlocking ==
    /\ req = "sent"
    /\ pstate = "Idle"
    /\ req' = "accepted"
    /\ lastTrig' = [n |-> lastTrig.n + 1, seen |-> pstate, answer |-> "accepted"]
    /\ runs' = runs + 1
    /\ finished' = finished + 1
    /\ preRun' = Live
    /\ index' = OrderById(store)
    /\ metadatas' = OrderById(store)
    /\ outcome' = [kind |-> "swapped", partial |-> <<>>]
    /\ UNCHANGED <<pstate, build, todo, sawSwap, rd, reindexing, showSuccess>>
    /\ UNCHANGED <<conn, indexLoaded, store, deleted, ret>>
    /\ UNCHANGED <<chatVars, docVars>>

\* POST documents/reindex on the server: accepted when the pipeline is Idle,
\* busy otherwise; the answer does not wait for the run
TriggerReindex ==
    /\ req = "sent"
    /\ IF pstate = "Idle"
       THEN /\ req' = "accepted"
            /\ lastTrig' = [n |-> lastTrig.n + 1, seen |-> pstate,
                            answer |-> "accepted"]
            /\ pstate' = "Scanning"
            /\ runs' = runs + 1
            /\ preRun' = Live
            /\ build' = EmptyIndex
            /\ todo' = <<>>
            /\ sawSwap' = FALSE
       ELSE /\ req' = "busy"
            /\ lastTrig' = [n |-> lastTrig.n + 1, seen |-> pstate,
                            answer |-> "busy"]
            /\ UNCHANGED <<pstate, runs, preRun, build, todo, sawSwap>>
    /\ UNCHANGED <<finished, outcome, rd, reindexing, showSuccess>>
    /\ UNCHANGED <<chatVars, retrVars, docVars>>

\* Scanning: every document of the store is enumerated
ScanDone ==
    /\ pstate = "Scanning"
    /\ pstate' = "Embedding"
    /\ todo' = OrderById(store)
    /\ UNCHANGED <<build, runs, finished, preRun, sawSwap, outcome, rd,
                   reindexing, showSuccess, req, lastTrig>>
    /\ UNCHANGED <<chatVars, retrVars, docVars>>

\* an embedding step that adds to the live index in place
EmbedOneInPlace ==
    /\ pstate = "Embedding"
    /\ todo # <<>>
    /\ index' = Append(index, Head(todo))
    /\ metadatas' = Append(metadatas, Head(todo))
    /\ todo' = Tail(todo)
    /\ UNCHANGED <<build, pstate, runs, finished, preRun, sawSwap, outcome, rd,
                   reindexing, showSuccess, req, lastTrig>>
    /\ UNCHANGED <<conn, indexLoaded, store, deleted, ret>>
    /\ UNCHANGED <<chatVars, docVars>>

\* Embedding: the next document is embedded into the new build
EmbedOne ==
    /\ pstate = "Embedding"
    /\ todo # <<>>
    /\ build' = [index |-> Append(build.index, Head(todo)),
                 metadatas |-> Append(build.metadatas, Head(todo))]
    /\ todo' = Tail(todo)
    /\ UNCHANGED <<pstate, runs, finished, preRun, sawSwap, outcome, rd,
                   reindexing, showSuccess, req, lastTrig>>
    /\ UNCHANGED <<chatVars, retrVars, docVars>>

\* Embedding is complete: the run enters Swapping
BeginSwap ==
    /\ pstate = "Embedding"
    /\ todo = <<>>
    /\ pstate' = "Swapping"
    /\ sawSwap' = TRUE
    /\ UNCHANGED <<build, todo, runs, finished, preRun, outcome, rd,
                   reindexing, showSuccess, req, lastTrig>>
    /\ UNCHANGED <<chatVars, retrVars, docVars>>

\* a swap that installs the new blob and leaves the old metadata table
SwapBlobOnly ==
    /\ pstate = "Swapping"
    /\ index' = build.index
    /\ indexLoaded' = TRUE
    /\ pstate' = "Idle"
    /\ finished' = finished + 1
    /\ outcome' = [kind |-> "swapped", partial |-> <<>>]
    /\ build' = EmptyIndex
    /\ UNCHANGED <<todo, runs, preRun, sawSwap, rd, reindexing, showSuccess,
                   req, lastTrig>>
    /\ UNCHANGED <<conn, metadatas, store, deleted, ret>>
    /\ UNCHANGED <<chatVars, docVars>>

\* Swapping: the live index (blob and metadata table) is replaced at once
Swap ==
    /\ pstate = "Swapping"
    /\ index' = build.index
    /\ metadatas' = build.metadatas
    /\ indexLoaded' = TRUE
    /\ pstate' = "Idle"
    /\ finished' = finished + 1
    /\ outcome' = [kind |-> "swapped", partial |-> <<>>]
    /\ build' = EmptyIndex
    /\ UNCHANGED <<todo, runs, preRun, sawSwap, rd, reindexing, showSuccess,
                   req, lastTrig>>
    /\ UNCHANGED <<conn, store, deleted, ret>>
    /\ UNCHANGED <<chatVars, docVars>>

\* a failure that leaves what was embedded so far in the live index
FailRunPublishing ==
    /\ pstate \in {"Scanning", "Embedding"}
    /\ pstate' = "Failed"
    /\ outcome' = [kind |-> "failed", partial |-> build.index]
    /\ index' = build.index
    /\ metadatas' = build.metadatas
    /\ build' = EmptyIndex
    /\ todo' = <<>>
    /\ UNCHANGED <<runs, finished, preRun, sawSwap, rd, reindexing, showSuccess,
                   req, lastTrig>>
    /\ UNCHANGED <<conn, indexLoaded, store, deleted, ret>>
    /\ UNCHANGED <<chatVars, docVars>>

\* an error during Scanning or Embedding: the run fails, its build is dropped
FailRun ==
    /\ pstate \in {"Scanning", "Embedding"}
    /\ pstate' = "Failed"
    /\ outcome' = [kind |-> "failed", partial |-> build.index]
    /\ build' = EmptyIndex
    /\ todo' = <<>>
    /\ UNCHANGED <<runs, finished, preRun, sawSwap, rd, reindexing, showSuccess,
                   req, lastTrig>>
    /\ UNCHANGED <<chatVars, retrVars, docVars>>

\* a recovery that retries the run at once
RecoverByRetry ==
    /\ pstate = "Failed"
    /\ pstate' = "Scanning"
    /\ UNCHANGED <<build, todo, runs, finished, preRun, sawSwap, outcome, rd,
                   reindexing, showSuccess, req, lastTrig>>
    /\ UNCHANGED <<chatVars, retrVars, docVars>>

\* Failed -> Idle
Recover ==
    /\ pstate = "Failed"
    /\ pstate' = "Idle"
    /\ finished' = finished + 1
    /\ UNCHANGED <<build, todo, runs, preRun, sawSwap, outcome, rd, reindexing,
                   showSuccess, req, lastTrig>>
    /\ UNCHANGED <<chatVars, retrVars, docVars>>

\* a retrieval searches the live index (self.index.search)
ReadIndex ==
    /\ rd.phase \in {"idle", "done"}
    /\ rd' = [phase |-> "searched", index |-> index, metadatas |-> <<>>,
              partial |-> build.index, during |-> pstate, during2 |-> "Idle",
              run |-> runs]
    /\ UNCHANGED <<pstate, build, todo, runs, finished, preRun, sawSwap, outcome,
                   reindexing, showSuccess, req, lastTrig>>
    /\ UNCHANGED <<chatVars, retrVars, docVars>>

\* the retrieval maps the rows it got through self.metadatas
ReadMetadata ==
    /\ rd.phase = "searched"
    /\ rd' = [rd EXCEPT !.phase = "done", !.metadatas = metadatas,
                        !.during2 = pstate]
    /\ UNCHANGED <<pstate, build, todo, runs, finished, preRun, sawSwap, outcome,
                   reindexing, showSuccess, req, lastTrig>>
    /\ UNCHANGED <<chatVars, retrVars, docVars>>

\* Settings.handleReindexDocuments up to its await; the button is disabled
\* while reindexing is set
HandleReindexDocuments ==
    /\ ~reindexing
    /\ lastTrig.n < MaxTriggers
    /\ reindexing' = TRUE
    /\ req' = "sent"
    /\ UNCHANGED <<pstate, build, todo, runs, finished, preRun, sawSwap, outcome,
                   rd, showSuccess, lastTrig>>
    /\ UNCHANGED <<chatVars, retrVars, docVars>>

\* the fetch resolves: the toast on response.ok, then the finally block
ReindexResponse(ok) ==
    /\ req \in {"accepted", "busy"}
    /\ req = "accepted" => ok
    /\ showSuccess' = (showSuccess \/ ok)
    /\ reindexing' = FALSE
    /\ req' = "none"
    /\ UNCHANGED <<pstate, build, todo, runs, finished, preRun, sawSwap, outcome,
                   rd, lastTrig>>
    /\ UNCHANGED <<chatVars, retrVars, docVars>>

\* the fetch rejects before the server saw the request: catch, then finally
ReindexRequestFails ==
    /\ req = "sent"
    /\ reindexing' = FALSE
    /\ req' = "none"
    /\ UNCHANGED <<pstate, build, todo, runs, finished, preRun, sawSwap, outcome,
                   rd, showSuccess, lastTrig>>
    /\ UNCHANGED <<chatVars, retrVars, docVars>>

\* setTimeout(() => setShowSuccess(false), 3000)
SuccessTimeout ==
    /\ showSuccess
    /\ showSuccess' = FALSE
    /\ UNCHANGED <<pstate, build, todo, runs, finished, preRun, sawSwap, outcome,
                   rd, reindexing, req, lastTrig>>
    /\ UNCHANGED <<chatVars, retrVars, docVars>>

NextReindex ==
    \/ HandleReindexDocuments
    \/ TriggerReindex
    \/ \E ok \in BOOLEAN : ReindexResponse(ok)
    \/ ReindexRequestFails
    \/ SuccessTimeout
    \/ ScanDone
    \/ EmbedOne
    \/ BeginSwap
    \/ Swap
    \/ FailRun
    \/ Recover
    \/ ReadIndex
    \/ ReadMetadata

-----------------------------------------------------------------------------
(* Part IV  The Documents page (pages/Documents.tsx) and the documents API *)

\* documents in the store the documents API lists
NumListed == 3
\* PAGE_SIZE (50 in the source), scaled down
PAGE_SIZE == 1
\* GET requests the page sends per behaviour
MaxRequests == 5

ListedIds == 1..NumListed
Types == {"book", "web"}
Years == {1421, 1422}
\* selectedYear "all"
AllYears == 0
\* similarity_score values, in percent
Scores == {0, 100}

\* a Document of lib/api.ts; scored is whether similarity_score is present
Doc(id, scored, score) ==
    [id |-> id,
     type |-> IF id % 2 = 1 THEN "book" ELSE "web",
     year |-> 1421 + ((id \div 2) % 2),
     scored |-> scored,
     similarity_score |-> score]

\* the rows of the documents table, by id
Corpus == [i \in ListedIds |-> Doc(i, FALSE, 0)]

CeilDiv(a, b) == (a + b - 1) \div b

\* GET /api/documents?limit&offset: a slice of the store and its size
ListResponse(limit, offset) ==
    [documents |-> SubSeq(Corpus, offset + 1, Min(offset + limit, Len(Corpus))),
     total |-> Len(Corpus)]

\* GET /api/documents/search: semantic results carry a score, which may be
\* zero; lexical results carry none
SearchResponses ==
    {[i \in 1..Len(ids) |-> Doc(ids[i], TRUE, sc)] :
        ids \in {OrderById(m) : m \in SUBSET ListedIds}, sc \in Scores}
    \cup {[i \in 1..Len(ids) |-> Doc(ids[i], FALSE, 0)] :
            ids \in {OrderById(m) : m \in SUBSET ListedIds}}

\* the match badge of Documents.tsx: doc.similarity_score != null
ShowsScore(doc) == doc.scored

\* the relevance line of the earlier page: doc.similarity_score && (...)
ShowsRelevance(doc) == doc.scored /\ doc.similarity_score # 0

\* filteredDocuments
MatchesFilters(doc) ==
    /\ selectedType = "all" \/ doc.type = selectedType
    /\ selectedYear = AllYears \/ doc.year = selectedYear

FilteredDocuments == SelectSeq(documents, MatchesFilters)

TotalPages == CeilDiv(totalDocuments, PAGE_SIZE)

\* the status line outside search mode: "Showing first-last of total"
ShowingFirst == (currentPage - 1) * PAGE_SIZE + 1
ShowingLast == Min(currentPage * PAGE_SIZE, totalDocuments)

PaginationShown == ~isSearchMode /\ TotalPages > 1

Request(kind, page) == [id |-> nReq + 1, kind |-> kind, page |-> page]

\* loadDocuments(page), n times in a row, up to the await
LoadDocuments(page, n) ==
    /\ nReq + n <= MaxRequests
    /\ loading' = TRUE
    /\ isSearchMode' = FALSE
    /\ pending' = pending \cup
          {[id |-> nReq + i, kind |-> "list", page |-> page] : i \in 1..n}
    /\ nReq' = nReq + n

\* setCurrentPage(page) and what follows it: the effect on currentPage calls
\* loadDocuments when the page changed
GoToPage(page) ==
    /\ page # currentPage
    /\ currentPage' = page
    /\ LoadDocuments(page, 1)
    /\ UNCHANGED <<documents, searchQuery, searching, selectedType,
                   selectedYear, totalDocuments, error>>
    /\ UNCHANGED <<chatVars, retrVars, pipeVars>>

\* the previous / next buttons of the pagination controls
PreviousPage ==
    /\ PaginationShown
    /\ currentPage # 1
    /\ GoToPage(IF currentPage - 1 >= 1 THEN currentPage - 1 ELSE 1)

NextPage ==
    /\ PaginationShown
    /\ currentPage # TotalPages
    /\ GoToPage(Min(TotalPages, currentPage + 1))

\* the search box is edited
SetSearchQuery(q) ==
    /\ q # searchQuery
    /\ searchQuery' = q
    /\ UNCHANGED <<documents, loading, searching, isSearchMode, selectedType,
                   selectedYear, totalDocuments, currentPage, error, pending,
                   nReq>>
    /\ UNCHANGED <<chatVars, retrVars, pipeVars>>

\* handleSearch (button or Enter): an empty box reloads page 1, otherwise the
\* search request goes out
HandleSearch ==
    /\ IF searchQuery = ""
       THEN /\ currentPage' = 1
            /\ LoadDocuments(1, IF currentPage = 1 THEN 1 ELSE 2)
            /\ UNCHANGED searching
       ELSE /\ nReq + 1 <= MaxRequests
            /\ searching' = TRUE
            /\ isSearchMode' = TRUE
            /\ pending' = pending \cup {Request("search", 0)}
            /\ nReq' = nReq + 1
            /\ UNCHANGED <<loading, currentPage>>
    /\ UNCHANGED <<documents, searchQuery, selectedType, selectedYear,
                   totalDocuments, error>>
    /\ UNCHANGED <<chatVars, retrVars, pipeVars>>

\* handleClearSearch: shown while the box is not empty
HandleClearSearch ==
    /\ searchQuery # ""
    /\ searchQuery' = ""
    /\ currentPage' = 1
    /\ LoadDocuments(1, IF currentPage = 1 THEN 1 ELSE 2)
    /\ UNCHANGED <<documents, searching, selectedType, selectedYear,
                   totalDocuments, error>>
    /\ UNCHANGED <<chatVars, retrVars, pipeVars>>

SetSelectedType(t) ==
    /\ t # selectedType
    /\ selectedType' = t
    /\ UNCHANGED <<documents, loading, searchQuery, searching, isSearchMode,
                   selectedYear, totalDocuments, currentPage, error, pending,
                   nReq>>
    /\ UNCHANGED <<chatVars, retrVars, pipeVars>>

SetSelectedYear(y) ==
    /\ y # selectedYear
    /\ selectedYear' = y
    /\ UNCHANGED <<documents, loading, searchQuery, searching, isSearchMode,
                   selectedType, totalDocuments, currentPage, error, pending,
                   nReq>>
    /\ UNCHANGED <<chatVars, retrVars, pipeVars>>

\* getAllDocuments resolves inside loadDocuments: the page and the total
ListResolves(r) ==
    /\ r \in pending
    /\ r.kind = "list"
    /\ LET data == ListResponse(PAGE_SIZE, (r.page - 1) * PAGE_SIZE)
       IN  /\ documents' = data.documents
           /\ totalDocuments' = data.total
    /\ loading' = FALSE
    /\ pending' = pending \ {r}
    /\ UNCHANGED <<searchQuery, searching, isSearchMode, selectedType,
                   selectedYear, currentPage, error, nReq>>
    /\ UNCHANGED <<chatVars, retrVars, pipeVars>>

\* getAllDocuments rejects: the error banner
ListRejects(r) ==
    /\ r \in pending
    /\ r.kind = "list"
    /\ error' = TRUE
    /\ loading' = FALSE
    /\ pending' = pending \ {r}
    /\ UNCHANGED <<documents, searchQuery, searching, isSearchMode,
                   selectedType, selectedYear, totalDocuments, currentPage,
                   nReq>>
    /\ UNCHANGED <<chatVars, retrVars, pipeVars>>

\* searchDocuments resolves inside handleSearch
SearchResolves(r, results) ==
    /\ r \in pending
    /\ r.kind = "search"
    /\ documents' = results
    /\ totalDocuments' = Len(results)
    /\ searching' = FALSE
    /\ pending' = pending \ {r}
    /\ UNCHANGED <<loading, searchQuery, isSearchMode, selectedType,
                   selectedYear, currentPage, error, nReq>>
    /\ UNCHANGED <<chatVars, retrVars, pipeVars>>

\* searchDocuments rejects
SearchRejects(r) ==
    /\ r \in pending
    /\ r.kind = "search"
    /\ searching' = FALSE
    /\ pending' = pending \ {r}
    /\ UNCHANGED <<documents, loading, searchQuery, isSearchMode,
                   selectedType, selectedYear, totalDocuments, currentPage,
                   error, nReq>>
    /\ UNCHANGED <<chatVars, retrVars, pipeVars>>

NextDocuments ==
    \/ PreviousPage
    \/ NextPage
    \/ \E q \in {"", "q"} : SetSearchQuery(q)
    \/ HandleSearch
    \/ HandleClearSearch
    \/ \E t \in Types \cup {"all"} : SetSelectedType(t)
    \/ \E y \in Years \cup {AllYears} : SetSelectedYear(y)
    \/ \E r \in pending : ListResolves(r)
    \/ \E r \in pending : ListRejects(r)
    \/ \E r \in pending : \E results \in SearchResponses :
          SearchResolves(r, results)
    \/ \E r \in pending : SearchRejects(r)

InitChat ==
    /\ messages = <<>>
    /\ isTyping = FALSE
    /\ nSends = 0
    /\ ex = [e \in {1} |-> Unused]

NoRetrieval ==
    [path |-> "none", k |-> 0, results |-> <<>>, raised |-> FALSE,
     gone |-> {}, encodeOk |-> TRUE, hits |-> <<>>, lexical |-> 0,
     sem |-> <<>>, sqlCalled |-> FALSE]

InitRetrIdle ==
    /\ conn = TRUE
    /\ indexLoaded = TRUE
    /\ index = <<>>
    /\ metadatas = <<>>
    /\ store = {}
    /\ deleted = {}
    /\ ret = NoRetrieval

InitPipeIdle ==
    /\ pstate = "Idle"
    /\ build = EmptyIndex
    /\ todo = <<>>
    /\ runs = 0
    /\ finished = 0
    /\ preRun = EmptyIndex
    /\ sawSwap = FALSE
    /\ outcome = [kind |-> "none", partial |-> <<>>]
    /\ rd = NoRead
    /\ reindexing = FALSE
    /\ showSuccess = FALSE
    /\ req = "none"
    /\ lastTrig = [n |-> 0, seen |-> "Idle", answer |-> "none"]

\* the Documents page not mounted
InitDocsIdle ==
    /\ documents = <<>>
    /\ loading = TRUE
    /\ searchQuery = ""
    /\ searching = FALSE
    /\ isSearchMode = FALSE
    /\ selectedType = "all"
    /\ selectedYear = AllYears
    /\ totalDocuments = 0
    /\ currentPage = 1
    /\ error = FALSE
    /\ pending = {}
    /\ nReq = 0

InitStream == InitChat /\ InitRetrIdle /\ InitPipeIdle /\ InitDocsIdle

SpecStream == InitStream /\ [][NextStream]_vars

\* Every network operation eventually resolves or rejects: the fetch, each
\* read of the body, the sources request; and the server goes on until the
\* body has ended.
FetchSettles(e) ==
    \/ \E g \in SourceLists : FetchOk(e, g)
    \/ FetchNotOk(e)
    \/ FetchRejects(e)

ReadSettles(e) ==
    \/ \E n \in 1..Len(ex[e].wire) : ReadChunk(e, n)
    \/ ReadDone(e)
    \/ ReadRejects(e)

SourcesSettle(e) ==
    \/ \E l \in SourceLists : SourcesArrive(e, l)
    \/ SourcesFail(e)

ServerMoves(e) ==
    \/ \E p \in Payloads : ServerDelta(e, p)
    \/ ServerDone(e)
    \/ ServerError(e)
    \/ BodyEnds(e)
    \/ ConnectionBreaks(e)

NetworkSettles ==
    /\ WF_vars(FetchSettles(1))
    /\ WF_vars(ReadSettles(1))
    /\ WF_vars(SourcesSettle(1))
    /\ WF_vars(ServerMoves(1))

SpecStreamFair == InitStream /\ [][NextStream]_vars /\ NetworkSettles

\* a question has been sent and the server has answered with a whole body
InitDecode ==
    /\ messages = <<UserMsg(UserText), AssistantMsg(<<>>, "true")>>
    /\ isTyping = TRUE
    /\ nSends = 1
    /\ \E gen \in SeqUpTo(DeltaTexts, MaxDeltas) :
          \E sentinel \in {"done", "error", "none"} :
              ex = [e \in {1} |-> Streamed(gen, sentinel)]
    /\ InitRetrIdle
    /\ InitPipeIdle
    /\ InitDocsIdle

SpecDecode == InitDecode /\ [][NextDecode]_vars

\* the Chat page mounted, for a conversation of two questions
InitConversation ==
    /\ messages = <<>>
    /\ isTyping = FALSE
    /\ nSends = 0
    /\ ex = [e \in {1, 2} |-> Unused]
    /\ InitRetrIdle
    /\ InitPipeIdle
    /\ InitDocsIdle

SpecConversation == InitConversation /\ [][NextConversation]_vars

\* the system as _initialize_system leaves it: the database connected or not,
\* the index and its metadata loaded from the same build or absent (it
\* returns before loading them when the database is missing)
InitRetrieve ==
    /\ conn \in BOOLEAN
    /\ indexLoaded \in BOOLEAN
    /\ indexLoaded => conn
    /\ metadatas \in SeqUpTo(DocIds, MaxRows)
    /\ index = IF indexLoaded THEN metadatas ELSE <<>>
    /\ store = DocIds
    /\ deleted = {}
    /\ ret = NoRetrieval
    /\ InitChat
    /\ InitPipeIdle
    /\ InitDocsIdle

SpecRetrieve == InitRetrieve /\ [][NextRetrieve]_vars

\* the store holds the corpus; the live index is of an earlier build
InitReindex ==
    /\ conn = TRUE
    /\ indexLoaded = TRUE
    /\ metadatas \in {<<>>, <<1>>}
    /\ index = metadatas
    /\ store = DocIds
    /\ deleted = {}
    /\ ret = NoRetrieval
    /\ InitChat
    /\ InitPipeIdle
    /\ InitDocsIdle

SpecReindex == InitReindex /\ [][NextReindex]_vars

\* the Documents page mounted: the effect on currentPage has called
\* loadDocuments(1)
InitDocuments ==
    /\ documents = <<>>
    /\ loading = TRUE
    /\ searchQuery = ""
    /\ searching = FALSE
    /\ isSearchMode = FALSE
    /\ selectedType = "all"
    /\ selectedYear = AllYears
    /\ totalDocuments = 0
    /\ currentPage = 1
    /\ error = FALSE
    /\ pending = {[id |-> 1, kind |-> "list", page |-> 1]}
    /\ nReq = 1
    /\ InitChat
    /\ InitRetrIdle
    /\ InitPipeIdle

SpecDocuments == InitDocuments /\ [][NextDocuments]_vars

-----------------------------------------------------------------------------
(* Claims about the chat stream                                            *)

CallsOf(log, kinds) == SelectSeq(log, LAMBDA c : c.cb \in kinds)

TextsOf(calls) == [i \in 1..Len(calls) |-> calls[i].text]

\* what streamChat hands to onDelta for the frames of the generated deltas,
\* each frame decoded on its own, in generation order
RECURSIVE DecodedDeltas(_)
DecodedDeltas(gen) ==
    IF gen = <<>> THEN <<>>
    ELSE TextsOf(CallsOf(Drain(DeltaFrame(Head(gen))).calls, {"delta"}))
         \o DecodedDeltas(Tail(gen))

Settled(e) == ex[e].phase \in {"returned", "rejected"}

\* C1: within one streamed answer the deltas reach the consumer in the order
\* in which they were generated, and the sources event comes after every
\* delta: no delta is delivered after the sources of its answer.
C1_DeltasInOrderSourcesLast ==
    \A e \in Exchanges :
        LET log == ex[e].log
        IN  /\ IsPrefix(TextsOf(CallsOf(log, {"delta"})),
                        DecodedDeltas(ex[e].generated))
            /\ \A i, j \in 1..Len(log) :
                   log[i].cb = "sources" /\ log[j].cb = "delta" => j < i

\* two different deltas were delivered, then the stream completed and the
\* sources arrived
C1_Witness ==
    \E e \in Exchanges :
        LET log == ex[e].log
        IN  /\ Len(log) = 4
            /\ log[1].cb = "delta" /\ log[2].cb = "delta"
            /\ log[1].text # log[2].text
            /\ log[3].cb = "done" /\ log[4].cb = "sources"

\* C2: for every streamChat call exactly one of onDone / onError is invoked,
\* exactly once, and no onDelta follows it, whatever the outcome of the
\* request (also when fetch or a read fails).
C2_ExactlyOneTerminal ==
    \A e \in Exchanges :
        LET log == ex[e].log
            terminals == {i \in 1..Len(log) : log[i].cb \in {"done", "error"}}
        IN  /\ Settled(e) => Cardinality(terminals) = 1
            /\ Cardinality(terminals) <= 1
            /\ \A i \in terminals : \A j \in 1..Len(log) :
                   log[j].cb = "delta" => j < i

\* C3: a stream that stops before the normal-completion sentinel is never
\* presented to the consumer as a normally completed answer, and a
\* language-model failure ends the stream with an error event.
C3_NoSilentTruncation ==
    \A e \in Exchanges :
        LET done == CallsOf(ex[e].log, {"done"}) # <<>>
            failed == CallsOf(ex[e].log, {"error"}) # <<>>
        IN  /\ done => ex[e].sentinel = "done"
            /\ (ex[e].sentinel = "error" /\ ex[e].phase = "returned") => failed

\* C4: text already streamed is never retracted: when a stream ends with an
\* error, the answer text the page showed before the error is still part of
\* the assistant answer it shows once the error has been handled.
C4_NoRetraction ==
    [][\A e \in Exchanges :
          (/\ Len(ex'[e].log) > Len(ex[e].log)
           /\ ex'[e].log[Len(ex'[e].log)].cb = "error"
           /\ messages # <<>>
           /\ messages' # <<>>)
          => IsPrefix(messages[Len(messages)].content,
                      messages'[Len(messages')].content)]_vars

\* C13: once the caller has left a stream that was under way, no further
\* delta of that stream is delivered to it and no sources are fetched or
\* reported for it.
C13_NothingAfterDisconnect ==
    [][\A e \in Exchanges :
          ex[e].left =>
              /\ CallsOf(ex'[e].log, {"delta", "sources"})
                    = CallsOf(ex[e].log, {"delta", "sources"})
              /\ ex'[e].src = "pending" => ex[e].src = "pending"]_vars

\* C14: the sources shown with an assistant answer are the retrieval results
\* that grounded the streamed answer itself.
C14_SourcesAreTheGrounding ==
    \A e \in Exchanges :
        (/\ ex[e].src = "done"
         /\ ~ex[e].left
         /\ messages # <<>>
         /\ messages[Len(messages)].hasSources)
        => messages[Len(messages)].sources = ex[e].grounding

\* C23: after handleClear the message list stays empty until the next
\* accepted handleSend, whatever a stream or a sources request started by an
\* earlier handleSend delivers later.
C23_ClearedStaysEmpty ==
    [][(messages = <<>> /\ messages' # <<>>) => nSends' = nSends + 1]_vars

\* C22: a user message that handleSend has appended stays in the message
\* list, at its place, until the chat is cleared: no callback of an earlier
\* exchange replaces the list with a snapshot that lacks it.
C22_UserMessageStays ==
    [][messages' # <<>> =>
          \A i \in 1..Len(messages) :
              messages[i].role = "user" =>
                  (Len(messages') >= i /\ messages'[i] = messages[i])]_vars

\* an accepted handleSend whose stream has called neither onDone nor onError
StreamOpen(e) ==
    ex[e].phase # "unused" /\ CallsOf(ex[e].log, {"done", "error"}) = <<>>

\* C25: at most one chat stream is in flight at any time: between an accepted
\* handleSend and the onDone or onError of its stream no further handleSend
\* is accepted.
C25_OneStreamInFlight ==
    /\ [](Cardinality({e \in Exchanges : StreamOpen(e)}) <= 1)
    /\ [][nSends' # nSends => \A e \in Exchanges : ~StreamOpen(e)]_vars

\* the second question is streaming, accepted after the first stream had
\* completed and while the first question's sources request is still out
C25_Witness ==
    /\ nSends = 2
    /\ isTyping
    /\ ex[1].src = "pending"
    /\ ex[2].phase = "streaming"
    /\ ex[2].log # <<>>

\* C24: every accepted handleSend eventually resets isTyping to false and
\* leaves the last assistant message with streaming = false, provided every
\* network operation eventually resolves or rejects (the page staying
\* mounted).
C24_TypingEventuallyReset ==
    (nSends = 1) ~>
        \/ ex[1].left
        \/ /\ ~isTyping
           /\ messages # <<>> => messages[Len(messages)].streaming = "false"

RECURSIVE Concat(_)
Concat(texts) ==
    IF texts = <<>> THEN <<>> ELSE Head(texts) \o Concat(Tail(texts))

\* the stream of exchange e has been read to its end
ReadToEnd(e) == ex[e].phase = "returned" /\ ex[e].srv = "ended"

\* C26: for every stream the concatenation of the texts passed to onDelta is
\* the concatenation of the delta texts the server sent: no delta is dropped,
\* trimmed or altered, whatever white space or protocol-like text it holds.
C26_DeltaTextExact ==
    \A e \in Exchanges :
        ReadToEnd(e) =>
            Concat(TextsOf(CallsOf(ex[e].log, {"delta"})))
                = Concat(ex[e].generated)

\* the callbacks streamChat makes when the whole body comes in one read
WholeBodyCalls(body) ==
    LET d == Drain(body)
    IN  d.calls \o (IF d.returned THEN <<>> ELSE <<Call("done", <<>>)>>)

\* C30: the callbacks streamChat makes depend only on the bytes of the body,
\* not on how the transport splits them into reads: every chunking gives the
\* callbacks the body gives when it is read in one piece.
C30_ChunkingIndependent ==
    \A e \in Exchanges :
        ReadToEnd(e) =>
            CallsOf(ex[e].log, {"delta", "done", "error"})
                = WholeBodyCalls(BodyOf(ex[e].generated)
                                    \o Terminal(ex[e].sentinel))

\* a body of two deltas and the sentinel has been read to its end in pieces,
\* a read having stopped in the middle of a frame
C30_Witness ==
    \E e \in Exchanges :
        /\ ReadToEnd(e)
        /\ ex[e].split
        /\ Len(CallsOf(ex[e].log, {"delta"})) = 2
        /\ CallsOf(ex[e].log, {"done"}) # <<>>

-----------------------------------------------------------------------------
(* Claims about the Reindex Pipeline                                       *)

\* C5: a retrieval issued while a run is in Scanning or Embedding is answered
\* from the index that was live before the run, never from the partial build:
\* the live index and every read of it made in those states equal the pre-run
\* index, blob and metadata table alike.
C5_RetrieveSeesPreviousIndex ==
    /\ pstate \in {"Scanning", "Embedding"} => Live = preRun
    /\ (rd.phase # "idle" /\ rd.run = runs
          /\ rd.during \in {"Scanning", "Embedding"})
       => rd.index = preRun.index
    /\ (rd.phase = "done" /\ rd.run = runs
          /\ rd.during2 \in {"Scanning", "Embedding"})
       => rd.metadatas = preRun.metadatas

\* a whole retrieval made during Embedding, while a partial build that differs
\* from the live index exists
C5_Witness ==
    /\ rd.phase = "done"
    /\ rd.run = runs
    /\ rd.during = "Embedding"
    /\ rd.during2 = "Embedding"
    /\ rd.partial # <<>>
    /\ rd.partial # rd.index

\* C6: a run that hits an error during Scanning or Embedding is in Failed
\* without having entered Swapping, and the live index is the one from before
\* the run, also once the pipeline is Idle again.
C6_FailureLeavesLiveIndex ==
    /\ pstate = "Failed" => (~sawSwap /\ Live = preRun)
    /\ (pstate = "Idle" /\ outcome.kind = "failed" /\ runs > 0)
       => (~sawSwap /\ Live = preRun)

\* a run failed after part of the corpus had been embedded
C6_Witness ==
    /\ pstate = "Failed"
    /\ outcome.kind = "failed"
    /\ outcome.partial # <<>>
    /\ outcome.partial # index

\* C7: at most one run is active at a time; a trigger handled while a run is
\* active is answered busy and neither starts nor queues a run, and a run
\* starts only from Idle, on an accepted trigger.
C7_OneRunBusyOtherwise ==
    /\ [](runs - finished \in {0, 1})
    /\ []((runs - finished = 1) <=> (pstate # "Idle"))
    /\ [][(req = "sent" /\ req' \in {"accepted", "busy"} /\ pstate \in Active)
            => (/\ req' = "busy"
                /\ runs' = runs
                /\ pstate' = pstate
                /\ build' = build
                /\ todo' = todo
                /\ Live' = Live)]_vars
    /\ [][runs' # runs
            => (pstate = "Idle" /\ req = "sent" /\ req' = "accepted"
                  /\ runs' = runs + 1)]_vars

\* a second trigger, sent after the first request had returned, found the run
\* in Embedding and was answered busy
C7_Witness ==
    /\ lastTrig.n = 2
    /\ lastTrig.answer = "busy"
    /\ lastTrig.seen = "Embedding"
    /\ runs = 1
    /\ finished = 0

\* the transitions of the pipeline's state machine
PipelineEdges ==
    {<<"Idle", "Scanning">>, <<"Scanning", "Embedding">>,
     <<"Embedding", "Swapping">>, <<"Swapping", "Idle">>,
     <<"Scanning", "Failed">>, <<"Embedding", "Failed">>,
     <<"Failed", "Idle">>}

\* C17: the pipeline's state changes only along Idle -> Scanning ->
\* Embedding -> Swapping -> Idle, or from Scanning or Embedding to Failed and
\* from Failed to Idle.
C17_PipelineStateMachine ==
    [][pstate' # pstate => <<pstate, pstate'>> \in PipelineEdges]_vars

\* two runs are over: one swapped the whole corpus in, the last one failed
C17_Witness ==
    /\ pstate = "Idle"
    /\ finished = 2
    /\ outcome.kind = "failed"
    /\ Len(index) = NumDocs

-----------------------------------------------------------------------------
(* Claims about retrieval                                                  *)

ResultIds(results) == {results[i].document_id : i \in 1..Len(results)}

\* rows of the live index whose document had been deleted when the
\* retrieval ran
StaleRows(r) == {i \in 1..Len(metadatas) : metadatas[i] \in r.gone}

\* C8: when a document has been deleted from the store while its embedding
\* is still in the index, the retrieval completes without raising and the
\* deleted id is not among its results.
C8_StaleReferenceTolerated ==
    (ret.path # "none" /\ StaleRows(ret) # {} /\ ret.encodeOk)
        => /\ ~ret.raised
           /\ ResultIds(ret.results) \cap ret.gone = {}

\* the index returned a row of a deleted document next to a live one, and
\* the retrieval answered from the semantic path
C8_Witness ==
    /\ ret.path = "semantic"
    /\ indexLoaded
    /\ \E i \in 1..Len(ret.hits) :
          /\ ret.hits[i].idx >= 0
          /\ metadatas[ret.hits[i].idx + 1] \in ret.gone
    /\ ret.results # <<>>

C15_EmbeddingFailureDistinct ==
    (ret.path # "none" /\ indexLoaded /\ ~ret.encodeOk)
        => ret.sem # SemanticSearch(TRUE, <<>>).results

\* C16: with the document store unavailable, what the lexical search and the
\* listing hand to their caller differs from the empty result.
C16_UnavailableIsExplicit ==
    (ret.path = "lexical" /\ ~conn)
        => /\ ret.results # EmptyResult
           /\ GetAllDocuments(ret.k) # EmptyResult

\* C10: the results are ordered by non-increasing similarity, and results
\* of equal similarity by ascending document_id.
C10_OrderedBySimilarityThenId ==
    ret.path = "semantic" =>
        \A i, j \in 1..Len(ret.results) :
            i < j =>
                /\ SimGeq(ret.results[i].similarity, ret.results[j].similarity)
                /\ SimEq(ret.results[i].similarity, ret.results[j].similarity)
                      => ret.results[i].document_id <= ret.results[j].document_id

\* show_question_page lists search_results[:3]
TopShown == 3

\* the documents show_question_page reports for an answer
ReportedSources(results) == SubSeq(results, 1, Min(TopShown, Len(results)))

\* C21: the sources reported for an answer contain at most one entry per
\* document_id, also when several retrieved rows belong to one document.
C21_OneSourcePerDocument ==
    (ret.path # "none" /\ ret.encodeOk) =>
        LET sources == ReportedSources(ret.sem)
        IN  \A i, j \in 1..Len(sources) :
                sources[i].document_id = sources[j].document_id => i = j

\* the rows index.search really returned whose metadata entry exists and
\* whose document was in the store when the retrieval ran
ReturnedRows(r) ==
    SelectSeq(r.hits, LAMBDA h : /\ h.idx >= 0
                                 /\ h.idx < Len(metadatas)
                                 /\ metadatas[h.idx + 1] \notin r.gone)

\* C29: every result of semantic_search corresponds to a row the index search
\* really returned and is built from that row's own metadata entry; the
\* padding rows (-1) and rows beyond the metadata table produce no result.
C29_ResultsFromReturnedRows ==
    (ret.path # "none" /\ ret.encodeOk /\ indexLoaded) =>
        LET rows == ReturnedRows(ret)
        IN  ret.sem = [i \in 1..Len(rows) |->
                          SemanticHit(metadatas[rows[i].idx + 1],
                                      rows[i].distance)]

-----------------------------------------------------------------------------
(* Claims about the Documents page                                         *)

\* C12: a result without a similarity score shows no score and a scored
\* result shows its score also when the score is zero, in the match badge of
\* the Documents page and in the relevance line of its earlier version.
C12_ZeroScoreIsAScore ==
    \A i \in 1..Len(FilteredDocuments) :
        LET doc == FilteredDocuments[i]
        IN  /\ ShowsScore(doc) <=> doc.scored
            /\ ShowsRelevance(doc) <=> doc.scored

\* C20: once the listing has loaded, the total the page reports is the
\* number of documents that match the active type and year filters, and the
\* range "first-last of total" covers exactly the documents listed.
C20_TotalIsFilteredCount ==
    (~isSearchMode /\ ~loading /\ ~error /\ pending = {})
        => /\ totalDocuments = Len(SelectSeq(Corpus, MatchesFilters))
           /\ FilteredDocuments # <<>>
                 => ShowingLast - ShowingFirst + 1 = Len(FilteredDocuments)

\* C28: whenever the pagination controls are shown, the current page lies
\* between 1 and the number of pages, which is ceil(totalDocuments / page
\* size), after any sequence of page changes, searches, edits of the search
\* box and search clears.
C28_PageWithinRange ==
    PaginationShown => (1 <= currentPage /\ currentPage <= TotalPages)

\* C27: once every outstanding request has been answered, the page shows
\* what the most recent user action asked for: when that action was a page
\* change or a search clear (the page is in list mode) and no request failed,
\* the documents and the total are those of the listing of the current page,
\* not those of a response to an earlier request.
C27_LatestActionWins ==
    (pending = {} /\ ~error /\ ~isSearchMode) =>
        LET data == ListResponse(PAGE_SIZE, (currentPage - 1) * PAGE_SIZE)
        IN  documents = data.documents /\ totalDocuments = data.total

=============================================================================
